---- MODULE Spec2Model ----
(***************************************************************************)
(* Turn-by-turn navigation core of wayfinders: the useNavigation hook      *)
(* (src/frontend/wayfinders/app/page.tsx, lines 48-289) and the            *)
(* NavigationService class (src/frontend/wayfinders/lib/                   *)
(* navigation-service.ts).                                                 *)
(*                                                                         *)
(* Every handler of the hook is one atomic action: the browser runs one    *)
(* callback at a time and the handlers contain no await.  A setState       *)
(* updater is applied to the state the previous handler left.              *)
(*                                                                         *)
(* Positions are points of a local tangent plane, in whole metres          *)
(* (lat = metres north, lng = metres east).  calculateDistance is the      *)
(* planar distance of two such points, carried as its SQUARE, so that      *)
(* "distance < k" and Math.round(distance) are computed exactly in         *)
(* integers.  The great-circle formula itself, on coordinates in degrees,  *)
(* is greatCircleDistance: it is computed in a binary floating point of    *)
(* PRECISION significant bits, and DistanceSpec applies it to pairs of     *)
(* coordinates.                                                            *)
(*                                                                         *)
(* JavaScript's T | null is modelled by Null or a record; numbers and      *)
(* strings that may be null are wrapped by Some.  JavaScript arrays are    *)
(* 0-based: At(seq, i) is seq[i] of the source.                            *)
(***************************************************************************)
EXTENDS Integers, Sequences, FiniteSets, TLC

VARIABLES
    state,      \* useState<NavigationState>          page.tsx:83
    routeRef,   \* useRef<Route | null>               page.tsx:85
    stepsRef,   \* useRef<RouteStep[]>                page.tsx:86
    service,    \* the NavigationService's fields     navigation-service.ts:7-10
    platform,   \* navigator.geolocation and window.speechSynthesis
    lastOp,     \* history: the handler that ran last, its argument, and
                \* whether a cleared watch called it (late)
    events,     \* history: the service and platform calls that handler made
    closeFixes, \* history: the number of fixes delivered since the session
                \* was started, each closer than 10 m to the waypoint then
                \* active, with no skip, stop or error since; Null otherwise
    measured    \* DistanceSpec: the two coordinates handed to
                \* calculateDistance and the distances it returned

vars == <<state, routeRef, stepsRef, service, platform, lastOp, events,
          closeFixes, measured>>

----------------------------------------------------------------------------
(* Bounds of the model *)

\* The longest step list a route carries.
MaxSteps == 3

\* The most location subscriptions alive at once (a new one is not started
\* beyond it).
MaxWatches == 2

\* DistanceSpec: coordinates lie up to MaxDegree whole degrees from (0, 0),
\* or on one of a few far latitudes and longitudes.
MaxDegree == 1

----------------------------------------------------------------------------
(* Values *)

Null == [null |-> TRUE]

Some(v) == [some |-> v]

\* seq[i] of the source (0-based), Null where JavaScript yields undefined.
At(seq, i) == IF i \in 0 .. (Len(seq) - 1) THEN seq[i + 1] ELSE Null

Pos(lat, lng) == [lat |-> lat, lng |-> lng]

Ev(call, text, id) == [call |-> call, text |-> text, id |-> id]

TRIGGER_DISTANCE_METERS == 30

ARRIVAL_DISTANCE_METERS == 10

initialState ==
    [ isNavigating           |-> FALSE,
      currentStepIndex       |-> 0,
      currentStep            |-> Null,
      nextStep               |-> Null,
      totalSteps             |-> 0,
      distanceToNextWaypoint |-> Null,
      userPosition           |-> Null,
      accuracy               |-> Null,
      error                  |-> Null,
      isSpeaking             |-> FALSE ]

----------------------------------------------------------------------------
(* Inputs: routes, fixes, error codes *)

\* step.instruction, by position in the step list.
InstructionText ==
    <<"Head east", "Turn left", "Turn right", "Keep straight",
      "Turn sharp left", "Arrive at destination">>

\* The two geometries routes are drawn on: coordinates are [lng, lat] pairs.
\* GeometryB is GeometryA walked the other way.
GeometryA == <<  <<0, 0>>, <<40, 0>>  >>

GeometryB == <<  <<40, 0>>, <<0, 0>>  >>

\* Non-decreasing lists of n indices in from .. top.
RECURSIVE IndexLists(_, _, _)
IndexLists(n, from, top) ==
    IF n = 0 THEN { <<>> }
    ELSE UNION { { <<e>> \o rest : rest \in IndexLists(n - 1, e, top) }
                 : e \in from .. top }

\* The way_points end indices of a step list of n steps on a geometry of
\* len coordinates: non-decreasing along the geometry, the last one possibly
\* len, the index just past the geometry.
EndIndexLists(n, len) ==
    IndexLists(n, 0, len - 1)
    \cup (IF n = 0 THEN {}
          ELSE { Append(l, len) : l \in IndexLists(n - 1, 0, len - 1) })

\* RouteStep (types/route.ts:1-8); name, distance, duration and type are
\* never read by the navigation core.
StepList(ends) ==
    [ i \in 1 .. Len(ends) |->
        [ instruction |-> InstructionText[i],
          way_points  |-> << (IF i = 1 THEN 0 ELSE ends[i - 1]), ends[i] >> ] ]

MkRoute(coords, segments) ==
    [ geometry   |-> [coordinates |-> coords],
      properties |-> [segments |-> segments] ]

\* RouteData values handed to startNavigation: the step lists of no step, of
\* one step and of MaxSteps steps on GeometryA, the one-step routes on
\* GeometryB, a route without segments, and a missing route.
RoutesOn(g, lengths) ==
    { [route |-> MkRoute(g, << [steps |-> StepList(ends)] >>)] :
        ends \in UNION { EndIndexLists(n, Len(g)) : n \in lengths } }

RouteDatas ==
    RoutesOn(GeometryA, {0, 1, MaxSteps})
    \cup RoutesOn(GeometryB, {1})
    \cup { [route |-> MkRoute(GeometryA, <<>>)], [route |-> Null] }

\* Position fixes the platform reports: (lat, lng, accuracy).
\*   (0, 0)    on one coordinate, 40 m from the other
\*   (0, 10)   exactly 10 m from one coordinate, exactly 30 m from the other
\*   (6, 35)   7.8 m from (0, 40), 35.5 m from (0, 0)
Fixes ==
    { [lat |-> 0, lng |-> 0,  accuracy |-> 3],
      [lat |-> 0, lng |-> 10, accuracy |-> 5],
      [lat |-> 6, lng |-> 35, accuracy |-> 8] }

\* GeolocationPositionError.code
ErrorCodes == {1, 2, 3}

\* SpeechSynthesisErrorEvent.error of an utterance that fails while played,
\* and of one that synthesis.cancel() dropped.
SynthesisErrors == {"synthesis-failed"}

CancelErrors == {"canceled", "interrupted"}

----------------------------------------------------------------------------
(* NavigationService (lib/navigation-service.ts).  A world w is the record  *)
(* a handler threads through its calls: the React state, the service's     *)
(* fields, the two refs, the platform, and the calls made so far.          *)

World(st, route, steps, svc, plat) ==
    [ state |-> st, routeRef |-> route, stepsRef |-> steps,
      svc |-> svc, plat |-> plat, events |-> <<>> ]

Log(w, call, text, id) == [w EXCEPT !.events = Append(@, Ev(call, text, id))]

\* navigator.geolocation.watchPosition returns an id no live watch has.
FreshWatchId(plat) == CHOOSE id \in 1 .. MaxWatches :
    /\ id \notin plat.watches
    /\ \A j \in 1 .. (id - 1) : j \in plat.watches

resetSpokenFlag(w) ==
    [Log(w, "resetSpokenFlag", "", 0) EXCEPT !.svc.hasSpokenCurrentStep = FALSE]

\* Faulty variant: the call is made and the flag is not set.
markAsSpoken_forgets(w) == Log(w, "markAsSpoken", "", 0)

markAsSpoken(w) ==
    [Log(w, "markAsSpoken", "", 0) EXCEPT !.svc.hasSpokenCurrentStep = TRUE]

hasSpoken(w) == w.svc.hasSpokenCurrentStep

\* cancelSpeech: synthesis.cancel() empties the platform's utterance queue;
\* the call is recorded with the number of utterances it dropped.
cancelSpeech(w) ==
    LET w1 == IF w.plat.synthesis
              THEN [Log(w, "synthesis.cancel", "", Len(w.plat.queue)) EXCEPT
                       !.plat.queue = <<>>]
              ELSE w
    IN [w1 EXCEPT !.svc.currentUtterance = Null]

\* Faulty variant: the new utterance is queued behind the one being played.
speak_noCancel(w, text) ==
    LET w0 == Log(w, "speak", text, 0)
    IN IF ~w0.plat.synthesis THEN Log(w0, "resolve", text, 0)
       ELSE [Log(w0, "synthesis.speak", text, 0) EXCEPT
                !.svc.currentUtterance = Some(text),
                !.plat.queue           = Append(@, text)]

\* speak(text): without a synthesis the promise resolves and nothing is
\* said; otherwise cancelSpeech, then synthesis.speak(utterance) appends the
\* utterance to the platform's queue.
speak(w, text) ==
    LET w0 == Log(w, "speak", text, 0)
    IN IF ~w0.plat.synthesis THEN Log(w0, "resolve", text, 0)
       ELSE LET w1 == cancelSpeech(w0)
            IN [Log(w1, "synthesis.speak", text, 0) EXCEPT
                   !.svc.currentUtterance = Some(text),
                   !.plat.queue           = Append(@, text)]

\* Faulty variant: clears the watch and leaves the speech playing.
stopTracking_keepsSpeech(w) ==
    LET w0 == Log(w, "stopTracking", "", 0)
    IN IF w0.svc.watchId # Null
       THEN [Log(w0, "clearWatch", "", w0.svc.watchId.some) EXCEPT
                !.plat.watches = @ \ {w0.svc.watchId.some},
                !.svc.watchId  = Null]
       ELSE w0

\* Faulty variant: clearWatch is called whether or not an id is held.
stopTracking_clearsBlindly(w) ==
    LET w0 == Log(w, "stopTracking", "", 0)
        w1 == IF w0.svc.watchId # Null
              THEN [Log(w0, "clearWatch", "", w0.svc.watchId.some) EXCEPT
                       !.plat.watches  = @ \ {w0.svc.watchId.some},
                       !.svc.watchId   = Null]
              ELSE Log(w0, "clearWatch", "", 0)
    IN cancelSpeech(w1)

\* stopTracking: clearWatch of the id held, then cancelSpeech.
stopTracking(w) ==
    LET w0 == Log(w, "stopTracking", "", 0)
        w1 == IF w0.svc.watchId # Null
              THEN [Log(w0, "clearWatch", "", w0.svc.watchId.some) EXCEPT
                       !.plat.watches  = @ \ {w0.svc.watchId.some},
                       !.svc.watchId   = Null]
              ELSE w0
    IN cancelSpeech(w1)

\* Faulty variant: Math.floor for Math.round.
MathRound_truncates(sq) ==
    IF sq = 0 THEN 0
    ELSE CHOOSE r \in 1 .. sq : r * r <= sq /\ sq < (r + 1) * (r + 1)

\* Math.round of the distance whose square is sq.
MathRound(sq) ==
    IF sq = 0 THEN 0
    ELSE CHOOSE r \in 1 .. sq :
           /\ (2 * r - 1) * (2 * r - 1) <= 4 * sq
           /\ 4 * sq < (2 * r + 1) * (2 * r + 1)

\* calculateDistance(lat1, lng1, lat2, lng2): the square of the distance in
\* metres.
calculateDistance(lat1, lng1, lat2, lng2) ==
    (lat2 - lat1) * (lat2 - lat1) + (lng2 - lng1) * (lng2 - lng1)

\* distance < metres, for a distance carried as its square.
LessThanMeters(sq, metres) == sq < metres * metres

----------------------------------------------------------------------------
(* calculateDistance on coordinates in degrees (navigation-service.ts,      *)
(* lines 57-74 and 133-135).  A JavaScript number is modelled by a binary   *)
(* floating-point value of PRECISION significant bits, [neg, m, e] for      *)
(* (-1)^neg * m * 2^e with m = 0 or 2^(PRECISION-1) <= m < 2^PRECISION;     *)
(* every operation rounds its exact result to the nearest such value.       *)

PRECISION == 15

RECURSIVE Pow2(_)
Pow2(n) == IF n = 0 THEN 1 ELSE 2 * Pow2(n - 1)

RECURSIVE BitLength(_)
BitLength(m) == IF m = 0 THEN 0 ELSE 1 + BitLength(m \div 2)

Zero == [neg |-> FALSE, m |-> 0, e |-> 0]

NaN == [nan |-> TRUE]

\* The floating-point value nearest to (-1)^neg * m * 2^e.
Round(neg, m, e) ==
    IF m = 0 THEN Zero
    ELSE LET k == BitLength(m) - PRECISION
         IN IF k <= 0
            THEN [neg |-> neg, m |-> m * Pow2(-k), e |-> e + k]
            ELSE LET q == (m + Pow2(k - 1)) \div Pow2(k)
                 IN IF q = Pow2(PRECISION)
                    THEN [neg |-> neg, m |-> Pow2(PRECISION - 1), e |-> e + k + 1]
                    ELSE [neg |-> neg, m |-> q, e |-> e + k]

\* The number n of the source text.
Number(n) == Round(n < 0, IF n < 0 THEN -n ELSE n, 0)

\* a * b
Times(a, b) == Round(a.neg # b.neg, a.m * b.m, a.e + b.e)

\* a / b, for b other than zero
Over(a, b) ==
    Round(a.neg # b.neg, (a.m * Pow2(PRECISION)) \div b.m, a.e - b.e - PRECISION)

\* -a
Minus(a) == IF a.m = 0 THEN a ELSE [a EXCEPT !.neg = ~@]

\* a + b
Plus(a, b) ==
    IF a.m = 0 THEN b
    ELSE IF b.m = 0 THEN a
    ELSE LET hi == IF a.e >= b.e THEN a ELSE b
             lo == IF a.e >= b.e THEN b ELSE a
             d  == hi.e - lo.e
         IN IF d > PRECISION + 1 THEN hi
            ELSE LET x == hi.m * Pow2(PRECISION - 1)
                     y == (lo.m * Pow2(PRECISION - 1)) \div Pow2(d)
                     s == (IF hi.neg THEN -x ELSE x) + (IF lo.neg THEN -y ELSE y)
                 IN Round(s < 0, IF s < 0 THEN -s ELSE s, hi.e - (PRECISION - 1))

\* a < b
Less(a, b) == Plus(a, Minus(b)).neg

\* a / 2 and 2 * a are exact.
Halved(x) == IF x.m = 0 THEN x ELSE [x EXCEPT !.e = @ - 1]

Doubled(x) == IF x.m = 0 THEN x ELSE [x EXCEPT !.e = @ + 1]

\* The largest r in lo .. hi with r * r <= v.
RECURSIVE IntSqrt(_, _, _)
IntSqrt(lo, hi, v) ==
    IF lo = hi THEN lo
    ELSE LET mid == (lo + hi + 1) \div 2
         IN IF mid * mid <= v THEN IntSqrt(mid, hi, v) ELSE IntSqrt(lo, mid - 1, v)

\* Math.sqrt: NaN for a negative number.
MathSqrt(a) ==
    IF a.neg THEN NaN
    ELSE IF a.m = 0 THEN Zero
    ELSE LET odd == (a.e - (PRECISION - 1)) % 2 = 1
             v   == a.m * Pow2(IF odd THEN PRECISION ELSE PRECISION - 1)
             e2  == a.e - (IF odd THEN PRECISION ELSE PRECISION - 1)
         IN Round(FALSE, IntSqrt(0, Pow2(PRECISION) - 1, v), e2 \div 2)

\* Math.PI: 25736 / 8192 = 3.14160
MathPI == [neg |-> FALSE, m |-> 25736, e |-> -13]

\* The terms of the power series Math.sin, Math.cos and Math.atan2 are
\* summed to.
SeriesTerms == 10

RECURSIVE SinSeries(_, _, _, _)
SinSeries(term, x2, k, acc) ==
    IF k > SeriesTerms THEN acc
    ELSE LET next == Minus(Over(Times(term, x2), Number((2 * k) * (2 * k + 1))))
         IN SinSeries(next, x2, k + 1, Plus(acc, next))

\* Math.sin(x) = x - x^3/3! + x^5/5! - ...
MathSin(x) == SinSeries(x, Times(x, x), 1, x)

RECURSIVE CosSeries(_, _, _, _)
CosSeries(term, x2, k, acc) ==
    IF k > SeriesTerms THEN acc
    ELSE LET next == Minus(Over(Times(term, x2), Number((2 * k - 1) * (2 * k))))
         IN CosSeries(next, x2, k + 1, Plus(acc, next))

\* Math.cos(x) = 1 - x^2/2! + x^4/4! - ...
MathCos(x) == CosSeries(Number(1), Times(x, x), 1, Number(1))

RECURSIVE AtanSeries(_, _, _, _)
AtanSeries(power, u2, k, acc) ==
    IF k > SeriesTerms THEN acc
    ELSE LET next == Minus(Times(power, u2))
         IN AtanSeries(next, u2, k + 1, Plus(acc, Over(next, Number(2 * k + 1))))

\* atan(t) for 0 <= t <= 1: the series u - u^3/3 + u^5/5 - ..., taken at
\* u = (t - 1) / (t + 1) and raised by PI / 4 where t is above 0.41.
AtanUnit(t) ==
    IF Less(Over(Number(41), Number(100)), t)
    THEN LET u == Over(Plus(t, Number(-1)), Plus(t, Number(1)))
         IN Plus(Halved(Halved(MathPI)), AtanSeries(u, Times(u, u), 1, u))
    ELSE AtanSeries(t, Times(t, t), 1, t)

\* Math.atan2(y, x) for y >= 0 and x >= 0, the square roots it is called
\* with; NaN where either is.
MathAtan2(y, x) ==
    IF y = NaN \/ x = NaN THEN NaN
    ELSE IF y.m = 0 THEN Zero
    ELSE IF x.m = 0 THEN Halved(MathPI)
    ELSE IF Less(x, y) THEN Plus(Halved(MathPI), Minus(AtanUnit(Over(x, y))))
    ELSE AtanUnit(Over(y, x))

\* toRad(deg) = deg * (Math.PI / 180)
toRad(deg) == Times(deg, Over(MathPI, Number(180)))

\* Faulty variant: the cosine of lat1 is taken twice, that of lat2 never.
greatCircleDistance_oneLatitude(lat1, lng1, lat2, lng2) ==
    LET dLat == toRad(Number(lat2 - lat1))
        dLng == toRad(Number(lng2 - lng1))
        a    == Plus(Times(MathSin(Halved(dLat)), MathSin(Halved(dLat))),
                     Times(Times(Times(MathCos(toRad(Number(lat1))),
                                       MathCos(toRad(Number(lat1)))),
                                 MathSin(Halved(dLng))),
                           MathSin(Halved(dLng))))
        c    == MathAtan2(MathSqrt(a), MathSqrt(Plus(Number(1), Minus(a))))
    IN IF c = NaN THEN NaN ELSE Times(Number(6371000), Doubled(c))

\* calculateDistance(lat1, lng1, lat2, lng2) on whole degrees: the haversine
\* formula with R = 6371000, in metres.
greatCircleDistance(lat1, lng1, lat2, lng2) ==
    LET dLat == toRad(Number(lat2 - lat1))
        dLng == toRad(Number(lng2 - lng1))
        a    == Plus(Times(MathSin(Halved(dLat)), MathSin(Halved(dLat))),
                     Times(Times(Times(MathCos(toRad(Number(lat1))),
                                       MathCos(toRad(Number(lat2)))),
                                 MathSin(Halved(dLng))),
                           MathSin(Halved(dLng))))
        c    == MathAtan2(MathSqrt(a), MathSqrt(Plus(Number(1), Minus(a))))
    IN IF c = NaN THEN NaN ELSE Times(Number(6371000), Doubled(c))

----------------------------------------------------------------------------
(* useNavigation (app/page.tsx, lines 82-289) *)

\* errorMessages[error.code] || "Unknown location error"
errorMessages(code) ==
    CASE code = 1 -> "Location permission denied. Please enable location access."
      [] code = 2 -> "Location unavailable. Please check your device settings."
      [] code = 3 -> "Location request timed out. Please try again."
      [] OTHER    -> "Unknown location error"

\* Faulty variant: the error is shown and the session is left active.
handleError_keepsNavigating(w, code) ==
    stopTracking(
        [w EXCEPT !.state = [@ EXCEPT !.error = Some(errorMessages(code))]])

\* handleError: the updater keeps every field but error and isNavigating.
handleError(w, code) ==
    stopTracking(
        [w EXCEPT !.state = [@ EXCEPT !.error        = Some(errorMessages(code)),
                                      !.isNavigating = FALSE]])

\* Faulty variant: without navigator.geolocation nothing is reported.
startTracking_silent(w) ==
    LET w0 == Log(w, "startTracking", "", 0)
    IN IF ~w0.plat.geolocation
       THEN w0
       ELSE LET id == FreshWatchId(w0.plat)
            IN [Log(w0, "watchPosition", "", id) EXCEPT
                   !.svc.watchId  = Some(id),
                   !.plat.watches = @ \cup {id}]

\* startTracking: without navigator.geolocation onError runs before the
\* return, with code 2; otherwise watchPosition starts a watch.
startTracking(w) ==
    LET w0 == Log(w, "startTracking", "", 0)
    IN IF ~w0.plat.geolocation
       THEN handleError(w0, 2)
       ELSE LET id == FreshWatchId(w0.plat)
            IN [Log(w0, "watchPosition", "", id) EXCEPT
                   !.svc.watchId  = Some(id),
                   !.plat.watches = @ \cup {id}]

\* route?.properties?.segments?.[0]?.steps || []
StepsOf(routeData) ==
    IF routeData.route = Null THEN <<>>
    ELSE IF Len(routeData.route.properties.segments) = 0 THEN <<>>
    ELSE routeData.route.properties.segments[1].steps

\* Faulty variant: way_points[0], the start waypoint of the step.
waypointIndexOf_start(step) == step.way_points[1]

\* step.way_points[1]: the end waypoint of the step.
waypointIndexOf(step) == step.way_points[2]

\* [coord[1], coord[0]]: [lng, lat] to [lat, lng].
toLatLng(coord) == Pos(coord[2], coord[1])

getWaypointCoordinates(w, stepIndex) ==
    IF w.routeRef = Null \/ At(w.stepsRef, stepIndex) = Null THEN Null
    ELSE LET waypointIndex == waypointIndexOf(At(w.stepsRef, stepIndex))
             coordinates   == w.routeRef.geometry.coordinates
         IN IF waypointIndex \notin 0 .. (Len(coordinates) - 1) THEN Null
            ELSE toLatLng(coordinates[waypointIndex + 1])

\* Faulty variant: <= for <.
withinArrival_inclusive(distance) ==
    distance <= ARRIVAL_DISTANCE_METERS * ARRIVAL_DISTANCE_METERS

\* distance < service.ARRIVAL_DISTANCE_METERS
withinArrival(distance) == LessThanMeters(distance, ARRIVAL_DISTANCE_METERS)

\* distance < service.TRIGGER_DISTANCE_METERS
withinTrigger(distance) == LessThanMeters(distance, TRIGGER_DISTANCE_METERS)

\* Faulty variant: compares with steps.length (off by one).
hasNextStep_offByOne(prev, steps) == prev.currentStepIndex < Len(steps)

\* prev.currentStepIndex < steps.length - 1
hasNextStep(prev, steps) == prev.currentStepIndex < Len(steps) - 1

\* Faulty variant: the handler does not look at isNavigating.
notNavigating_never(prev) == FALSE

\* if (!prev.isNavigating) return prev
notNavigating(prev) == ~prev.isNavigating

\* Faulty variant: announces and stops the tracker but keeps the session.
arriveAtDestination_keepsSession(w) ==
    stopTracking(speak(w, "You have arrived at your destination"))

\* The arrival branch of handlePositionUpdate (page.tsx:141-146).
arriveAtDestination(w) ==
    [stopTracking(speak(w, "You have arrived at your destination")) EXCEPT
        !.state = initialState]

\* Faulty variant: speaks without marking the step as spoken.
speakInstruction_noMark(w, steps, shouldSpeak, newStepIndex) ==
    IF shouldSpeak /\ At(steps, newStepIndex) # Null
    THEN speak(w, At(steps, newStepIndex).instruction)
    ELSE w

\* Faulty variant: announces the step the fix has just completed.
speakInstruction_completedStep(w, steps, shouldSpeak, newStepIndex) ==
    IF shouldSpeak /\ At(steps, newStepIndex) # Null
    THEN speak(markAsSpoken(w), At(steps, newStepIndex - 1).instruction)
    ELSE w

\* if (shouldSpeak && steps[newStepIndex]) { markAsSpoken(); speak(...) }
speakInstruction(w, steps, shouldSpeak, newStepIndex) ==
    IF shouldSpeak /\ At(steps, newStepIndex) # Null
    THEN speak(markAsSpoken(w), At(steps, newStepIndex).instruction)
    ELSE w

\* Faulty variant: the position-only update moves to the next step as well.
positionOnlyState_advances(prev, lat, lng, accuracy) ==
    [prev EXCEPT !.userPosition     = Pos(lat, lng),
                 !.accuracy         = Some(accuracy),
                 !.currentStepIndex = @ + 1]

\* return {...prev, userPosition: [lat, lng], accuracy}
positionOnlyState(prev, lat, lng, accuracy) ==
    [prev EXCEPT !.userPosition = Pos(lat, lng),
                 !.accuracy     = Some(accuracy)]

\* Faulty variant: the fix moves past the step it has reached.
advancedIndex_skipsAhead(prev) == prev.currentStepIndex + 2

\* newStepIndex = prev.currentStepIndex + 1
advancedIndex(prev) == prev.currentStepIndex + 1

handlePositionUpdate(w, lat, lng, accuracy) ==
    LET prev  == w.state
        steps == w.stepsRef
    IN
    IF notNavigating(prev) THEN w
    ELSE
    LET waypointCoords == getWaypointCoordinates(w, prev.currentStepIndex)
    IN
    IF waypointCoords = Null
    THEN [w EXCEPT !.state = positionOnlyState(prev, lat, lng, accuracy)]
    ELSE
    LET distance == calculateDistance(lat, lng, waypointCoords.lat, waypointCoords.lng)
    IN
    IF withinArrival(distance) /\ ~hasNextStep(prev, steps)
    THEN arriveAtDestination(w)
    ELSE
    LET advance      == withinArrival(distance)
        newStepIndex == IF advance THEN advancedIndex(prev)
                        ELSE prev.currentStepIndex
        w1           == IF advance THEN resetSpokenFlag(w) ELSE w
        shouldSpeak  == advance \/ (withinTrigger(distance) /\ ~hasSpoken(w))
        w2           == speakInstruction(w1, steps, shouldSpeak, newStepIndex)
        newWaypointCoords == getWaypointCoordinates(w2, newStepIndex)
        newDistance  == IF newWaypointCoords # Null
                        THEN calculateDistance(lat, lng, newWaypointCoords.lat,
                                               newWaypointCoords.lng)
                        ELSE distance
    IN [w2 EXCEPT !.state =
           [prev EXCEPT !.userPosition           = Pos(lat, lng),
                        !.accuracy               = Some(accuracy),
                        !.currentStepIndex       = newStepIndex,
                        !.currentStep            = At(steps, newStepIndex),
                        !.nextStep               = At(steps, newStepIndex + 1),
                        !.distanceToNextWaypoint = Some(MathRound(newDistance))]]

\* The state startNavigation sets for a non-empty step list (page.tsx:217-228).
navigatingState(steps) ==
    [ isNavigating           |-> TRUE,
      currentStepIndex       |-> 0,
      currentStep            |-> At(steps, 0),
      nextStep               |-> At(steps, 1),
      totalSteps             |-> Len(steps),
      distanceToNextWaypoint |-> Null,
      userPosition           |-> Null,
      accuracy               |-> Null,
      error                  |-> Null,
      isSpeaking             |-> FALSE ]

\* Faulty variant: the first instruction is spoken and not marked.
announceFirst_noMark(w, steps) ==
    IF At(steps, 0) # Null
    THEN speak(w, "Starting navigation. " \o At(steps, 0).instruction)
    ELSE w

\* if (steps[0]) { speak(`Starting navigation. ${...}`); markAsSpoken() }
announceFirst(w, steps) ==
    IF At(steps, 0) # Null
    THEN markAsSpoken(speak(w, "Starting navigation. " \o At(steps, 0).instruction))
    ELSE w

\* Faulty variant: the error is set on a reset state.
noStepsState_reset(prev) ==
    [initialState EXCEPT !.error = Some("No navigation steps available")]

\* setState((prev) => ({...prev, error: "No navigation steps available"}))
noStepsState(prev) == [prev EXCEPT !.error = Some("No navigation steps available")]

\* Faulty variant: a call made while a session is active is ignored.
startNavigation_keepsActive(w, routeData) ==
    LET steps == StepsOf(routeData)
    IN IF w.state.isNavigating THEN w
       ELSE IF Len(steps) = 0
       THEN [w EXCEPT !.state = noStepsState(@)]
       ELSE LET w1 == [w EXCEPT !.routeRef = routeData.route,
                                !.stepsRef = steps,
                                !.state    = navigatingState(steps)]
            IN startTracking(announceFirst(resetSpokenFlag(w1), steps))

startNavigation(w, routeData) ==
    LET steps == StepsOf(routeData)
    IN IF Len(steps) = 0
       THEN [w EXCEPT !.state = noStepsState(@)]
       ELSE LET w1 == [w EXCEPT !.routeRef = routeData.route,
                                !.stepsRef = steps,
                                !.state    = navigatingState(steps)]
            IN startTracking(announceFirst(resetSpokenFlag(w1), steps))

stopNavigation(w) ==
    [stopTracking(w) EXCEPT !.routeRef = Null,
                            !.stepsRef = <<>>,
                            !.state    = initialState]

\* Faulty variant: > for >=.
skipIsNoOp_strict(prev, steps) == prev.currentStepIndex > Len(steps) - 1

\* if (prev.currentStepIndex >= steps.length - 1) return prev
skipIsNoOp(prev, steps) == prev.currentStepIndex >= Len(steps) - 1

\* Faulty variant: the new step is spoken and not marked.
skipToNextStep_noMark(w) ==
    LET prev  == w.state
        steps == w.stepsRef
    IN IF skipIsNoOp(prev, steps) THEN w
       ELSE LET newIndex == prev.currentStepIndex + 1
                w1 == resetSpokenFlag(w)
                w2 == IF At(steps, newIndex) # Null
                      THEN speak(w1, At(steps, newIndex).instruction)
                      ELSE w1
            IN [w2 EXCEPT !.state =
                   [prev EXCEPT !.currentStepIndex = newIndex,
                                !.currentStep      = At(steps, newIndex),
                                !.nextStep         = At(steps, newIndex + 1)]]

skipToNextStep(w) ==
    LET prev  == w.state
        steps == w.stepsRef
    IN IF skipIsNoOp(prev, steps) THEN w
       ELSE LET newIndex == prev.currentStepIndex + 1
                w1 == resetSpokenFlag(w)
                w2 == IF At(steps, newIndex) # Null
                      THEN markAsSpoken(speak(w1, At(steps, newIndex).instruction))
                      ELSE w1
            IN [w2 EXCEPT !.state =
                   [prev EXCEPT !.currentStepIndex = newIndex,
                                !.currentStep      = At(steps, newIndex),
                                !.nextStep         = At(steps, newIndex + 1)]]

\* Faulty variant: repeating clears the announced flag.
repeatCurrentInstruction_resetsFlag(w) ==
    IF w.state.currentStep # Null
    THEN speak(resetSpokenFlag(w), w.state.currentStep.instruction)
    ELSE w

repeatCurrentInstruction(w) ==
    IF w.state.currentStep # Null
    THEN speak(w, w.state.currentStep.instruction)
    ELSE w

\* Faulty variant: the end of an utterance ends the session as well.
onend_endsSession(w) ==
    [Log(w, "resolve", "", 0) EXCEPT !.svc.currentUtterance = Null,
                                      !.state.isNavigating   = FALSE]

\* utterance.onend (navigation-service.ts:91-94)
onend(w) == [Log(w, "resolve", "", 0) EXCEPT !.svc.currentUtterance = Null]

\* Faulty variant: no synthesis error is taken for a cancellation.
isCanceled_never(error) == FALSE

\* event.error === "canceled"
isCanceled(error) == error = "canceled"

\* Faulty variant: a synthesis error ends the session as a location error
\* does.
onerror_endsSession(w, error) ==
    LET w1 == [w EXCEPT !.svc.currentUtterance = Null,
                        !.state.isNavigating   = FALSE,
                        !.state.error          = Some(error)]
    IN IF isCanceled(error) THEN Log(w1, "resolve", "", 0)
       ELSE Log(w1, "reject", error, 0)

\* utterance.onerror (navigation-service.ts:96-103)
onerror(w, error) ==
    LET w1 == [w EXCEPT !.svc.currentUtterance = Null]
    IN IF isCanceled(error) THEN Log(w1, "resolve", "", 0)
       ELSE Log(w1, "reject", error, 0)

----------------------------------------------------------------------------
(* Waypoints and distances, as the properties speak of them *)

\* N, the number of steps of the session's route.
N == Len(stepsRef)

\* The end waypoint of step i (0-based) of the loaded route is a coordinate
\* of its geometry.
Resolvable(i) ==
    /\ routeRef # Null
    /\ i \in 0 .. (N - 1)
    /\ stepsRef[i + 1].way_points[2] \in 0 .. (Len(routeRef.geometry.coordinates) - 1)

\* The square of the distance from fix to the end waypoint of step i.
SqDistanceToWaypoint(fix, i) ==
    LET c == routeRef.geometry.coordinates[stepsRef[i + 1].way_points[2] + 1]
    IN (fix.lat - c[2]) * (fix.lat - c[2]) + (fix.lng - c[1]) * (fix.lng - c[1])

\* The fix is closer than m metres to the end waypoint of step i.
Closer(fix, i, m) == Resolvable(i) /\ SqDistanceToWaypoint(fix, i) < m * m

----------------------------------------------------------------------------
(* The state machine *)

Here == World(state, routeRef, stepsRef, service, platform)

\* The count of close fixes after the handler called name has run with
\* argument arg and left the world w: a start that leaves a session active
\* begins the count, a fix closer than 10 m to the active waypoint of a
\* counted session adds one, speech and a start that is refused for its
\* empty route leave the count of a counted session, and everything else
\* (a skip, a stop, an error, any other fix, any call made while no session
\* is active) ends it.
CloseFixesAfter(name, arg, w) ==
    IF name = "startNavigation" /\ Len(StepsOf(arg)) > 0 /\ w.state.isNavigating
    THEN Some(0)
    ELSE IF closeFixes = Null \/ ~state.isNavigating THEN Null
    ELSE IF name = "handlePositionUpdate"
    THEN IF Closer(arg, state.currentStepIndex, 10)
         THEN Some(closeFixes.some + 1)
         ELSE Null
    ELSE IF name \in {"startNavigation", "repeatCurrentInstruction", "onend", "onerror"}
    THEN closeFixes
    ELSE Null

\* One handler run: the world it leaves becomes the next state.
Run(name, arg, late, w) ==
    /\ closeFixes' = CloseFixesAfter(name, arg, w)
    /\ measured' = measured
    /\ state'    = w.state
    /\ routeRef' = w.routeRef
    /\ stepsRef' = w.stepsRef
    /\ service'  = w.svc
    /\ platform' = w.plat
    /\ events'   = w.events
    /\ lastOp'   = [name |-> name, arg |-> arg, late |-> late]

\* After the mount effect: a fresh NavigationService, no route, the initial
\* state.  The platform may or may not offer geolocation and speech.
Init ==
    /\ state    = initialState
    /\ routeRef = Null
    /\ stepsRef = <<>>
    /\ service  = [ watchId              |-> Null,
                    currentUtterance     |-> Null,
                    hasSpokenCurrentStep |-> FALSE ]
    /\ platform \in [ geolocation : BOOLEAN,
                      synthesis   : BOOLEAN,
                      watches     : {{}},
                      queue       : {<<>>} ]
    /\ lastOp   = [name |-> "mount", arg |-> Null, late |-> FALSE]
    /\ events   = <<>>
    /\ closeFixes = Null
    /\ measured = Null

\* The presentation layer calls startNavigation(routeData).
StartNavigation(routeData) ==
    /\ (Len(StepsOf(routeData)) > 0 /\ platform.geolocation)
          => Cardinality(platform.watches) < MaxWatches
    /\ Run("startNavigation", routeData, FALSE, startNavigation(Here, routeData))

StopNavigation == Run("stopNavigation", Null, FALSE, stopNavigation(Here))

SkipToNextStep == Run("skipToNextStep", Null, FALSE, skipToNextStep(Here))

RepeatCurrentInstruction ==
    Run("repeatCurrentInstruction", Null, FALSE, repeatCurrentInstruction(Here))

\* A live watch reports a position.
PositionFix(fix) ==
    /\ platform.watches # {}
    /\ Run("handlePositionUpdate", fix, FALSE,
           handlePositionUpdate(Here, fix.lat, fix.lng, fix.accuracy))

\* A callback the platform had queued before the last handler cleared its
\* watch still runs, as the next task.
CallbackInFlight == \E i \in 1 .. Len(events) : events[i].call = "clearWatch"

\* The position callback a cleared watch had queued runs.
LatePositionFix(fix) ==
    /\ CallbackInFlight
    /\ Run("handlePositionUpdate", fix, TRUE,
           handlePositionUpdate(Here, fix.lat, fix.lng, fix.accuracy))

\* A live watch reports an error.
PositionError(code) ==
    /\ platform.watches # {}
    /\ Run("handleError", [code |-> code], FALSE, handleError(Here, code))

\* The error callback a cleared watch had queued runs.
LatePositionError(code) ==
    /\ CallbackInFlight
    /\ Run("handleError", [code |-> code], TRUE, handleError(Here, code))

\* The utterance being played ends: it leaves the queue and its onend runs.
UtteranceEnd ==
    /\ platform.queue # <<>>
    /\ Run("onend", Null, FALSE, onend([Here EXCEPT !.plat.queue = Tail(@)]))

\* The utterance being played fails: it leaves the queue and its onerror
\* runs with the synthesis error.
UtteranceError(error) ==
    /\ platform.queue # <<>>
    /\ Run("onerror", [error |-> error], FALSE,
           onerror([Here EXCEPT !.plat.queue = Tail(@)], error))

\* The last handler's synthesis.cancel() dropped an utterance: the error
\* event of that utterance is still to be delivered.
CancelInFlight ==
    \E i \in 1 .. Len(events) :
        events[i].call = "synthesis.cancel" /\ events[i].id > 0

\* The onerror of an utterance that synthesis.cancel() dropped runs, as the
\* next task: the platform reports "interrupted" for an utterance it was
\* playing and "canceled" for one it had not begun.
CancelledUtteranceError(error) ==
    /\ CancelInFlight
    /\ Run("onerror", [error |-> error], TRUE, onerror(Here, error))

Next ==
    \/ \E routeData \in RouteDatas : StartNavigation(routeData)
    \/ StopNavigation
    \/ SkipToNextStep
    \/ RepeatCurrentInstruction
    \/ \E fix \in Fixes : PositionFix(fix)
    \/ \E fix \in Fixes : LatePositionFix(fix)
    \/ \E code \in ErrorCodes : PositionError(code)
    \/ \E code \in ErrorCodes : LatePositionError(code)
    \/ UtteranceEnd
    \/ \E error \in SynthesisErrors : UtteranceError(error)
    \/ \E error \in CancelErrors : CancelledUtteranceError(error)

Spec == Init /\ [][Next]_vars

----------------------------------------------------------------------------
(* calculateDistance as a function: DistanceSpec draws two coordinates and  *)
(* applies it to them in both orders.                                      *)

Latitudes == ((-MaxDegree) .. MaxDegree) \cup {-60, 45}

Longitudes == (0 .. MaxDegree) \cup {90}

Coordinates == { Pos(lat, lng) : lat \in Latitudes, lng \in Longitudes }

DistanceInit ==
    /\ state    = initialState
    /\ routeRef = Null
    /\ stepsRef = <<>>
    /\ service  = [ watchId              |-> Null,
                    currentUtterance     |-> Null,
                    hasSpokenCurrentStep |-> FALSE ]
    /\ platform = [ geolocation |-> TRUE, synthesis |-> TRUE,
                    watches |-> {}, queue |-> <<>> ]
    /\ lastOp   = [name |-> "mount", arg |-> Null, late |-> FALSE]
    /\ events   = <<>>
    /\ closeFixes = Null
    /\ measured \in { [from |-> a, to |-> b, there |-> Null, back |-> Null] :
                          a \in Coordinates, b \in Coordinates }

\* calculateDistance is called with the two coordinates, in both orders.
Measure ==
    /\ measured.there = Null
    /\ measured' =
          [measured EXCEPT
             !.there = greatCircleDistance(measured.from.lat, measured.from.lng,
                                           measured.to.lat, measured.to.lng),
             !.back  = greatCircleDistance(measured.to.lat, measured.to.lng,
                                           measured.from.lat, measured.from.lng)]
    /\ UNCHANGED <<state, routeRef, stepsRef, service, platform, lastOp,
                   events, closeFixes>>

DistanceNext == Measure

DistanceSpec == DistanceInit /\ [][DistanceNext]_vars

----------------------------------------------------------------------------
(* Vocabulary of the properties *)

\* The texts of the speak calls a handler made, in order.
Spoken(evs) ==
    LET calls == SelectSeq(evs, LAMBDA e : e.call = "speak")
    IN [i \in 1 .. Len(calls) |-> calls[i].text]

Called(evs, call) == \E i \in 1 .. Len(evs) : evs[i].call = call

\* This step is a run of the handler called name; Arg is its argument.
Ran(name) == lastOp'.name = name

Arg == lastOp'.arg

\* A handler left everything but the history as it was.
NothingChanged ==
    /\ state' = state
    /\ routeRef' = routeRef
    /\ stepsRef' = stepsRef
    /\ service' = service
    /\ platform' = platform

----------------------------------------------------------------------------
(* Properties *)

\* C1: within one navigation session currentStepIndex stays in [0, N-1], and
\* no position fix and no skipToNextStep call decreases it.
C1_StepIndexInRangeAndMonotone ==
    /\ [](state.isNavigating => state.currentStepIndex \in 0 .. (N - 1))
    /\ [][ ( /\ state.isNavigating
             /\ state'.isNavigating
             /\ Ran("handlePositionUpdate") \/ Ran("skipToNextStep") )
           => state'.currentStepIndex >= state.currentStepIndex ]_vars

\* C1 witness: a fix has advanced a three-step session to its last step.
C1_Witness ==
    /\ state.isNavigating
    /\ lastOp.name = "handlePositionUpdate"
    /\ N = 3
    /\ state.currentStepIndex = 2

\* C2: a fix closer than 10 m to the last step's waypoint, at the last step,
\* announces the arrival, stops the tracker and resets the session to the
\* initial state; a fix delivered while no session is active afterwards
\* changes nothing and announces nothing.
C2_ArrivalEndsSession ==
    [][ /\ ( /\ Ran("handlePositionUpdate")
               /\ state.isNavigating
               /\ state.currentStepIndex = N - 1
               /\ Closer(Arg, state.currentStepIndex, 10) )
             => /\ Spoken(events') = << "You have arrived at your destination" >>
                /\ Called(events', "stopTracking")
                /\ service'.watchId = Null
                /\ service.watchId # Null => service.watchId.some \notin platform'.watches
                /\ state' = initialState
        /\ ( /\ Ran("handlePositionUpdate")
             /\ ~state.isNavigating
             /\ routeRef # Null )
           => (NothingChanged /\ events' = <<>>) ]_vars

\* C2 witness: the session has ended by arrival (the route is still loaded,
\* the state is the initial one) and the fix the cleared watch had queued
\* has run.
C2_Witness ==
    /\ state = initialState
    /\ routeRef # Null
    /\ lastOp.name = "handlePositionUpdate"
    /\ lastOp.late
    /\ events = <<>>

\* C3: while navigating at step i < N-1, a fix closer than 10 m to the end
\* waypoint of step i sets the index to i+1, leaves the announced flag set
\* and makes exactly one speak call, with step[i+1].instruction.
C3_AdvanceAnnouncesNextStep ==
    [][ ( /\ Ran("handlePositionUpdate")
          /\ state.isNavigating
          /\ state.currentStepIndex < N - 1
          /\ Closer(Arg, state.currentStepIndex, 10) )
        => /\ state'.currentStepIndex = state.currentStepIndex + 1
           /\ service'.hasSpokenCurrentStep
           /\ Spoken(events') = << stepsRef[state.currentStepIndex + 2].instruction >> ]_vars

\* C3 witness: on a three-step route whose first step ends at (0, 40), the
\* fix (6, 35), 7.8 m from it, has moved the session to step 1 with one
\* announcement of step[1].instruction.
C3_Witness ==
    /\ state.isNavigating
    /\ lastOp.name = "handlePositionUpdate"
    /\ N = 3
    /\ state.currentStepIndex = 1
    /\ lastOp.arg = [lat |-> 6, lng |-> 35, accuracy |-> 8]
    /\ stepsRef[1].way_points[2] = 1
    /\ routeRef.geometry.coordinates = GeometryA
    /\ Spoken(events) = << stepsRef[2].instruction >>

\* C5: skipToNextStep called at the last step of a session is a no-op: the
\* session state, the refs, the announced flag and the platform are
\* unchanged and no call is made.
C5_SkipAtLastStepIsNoOp ==
    [][ ( /\ Ran("skipToNextStep")
          /\ state.isNavigating
          /\ state.currentStepIndex = N - 1 )
        => (NothingChanged /\ events' = <<>>) ]_vars

\* C5 witness: skipToNextStep has run at the last step of a session of at
\* least two steps and has made no call.
C5_Witness ==
    /\ lastOp.name = "skipToNextStep"
    /\ state.isNavigating
    /\ N >= 2
    /\ state.currentStepIndex = N - 1
    /\ events = <<>>

\* C6: a position fix delivered after stopNavigation has torn the session
\* down changes nothing and makes no call, whatever its position.
C6_LateFixAfterStopIsIgnored ==
    [][ ( /\ Ran("handlePositionUpdate")
          /\ routeRef = Null
          /\ ~state.isNavigating )
        => (NothingChanged /\ events' = <<>>) ]_vars

\* C6 witness: stopNavigation has cleared the route, and the fix its watch
\* had queued has run.
C6_Witness ==
    /\ lastOp.name = "handlePositionUpdate"
    /\ lastOp.late
    /\ routeRef = Null
    /\ state = initialState
    /\ events = <<>>

\* What C7 says startNavigation(routeData) leaves, for a route of N >= 1
\* steps.
C7_Post(routeData) ==
    LET steps == StepsOf(routeData)
    IN /\ state'.isNavigating
       /\ state'.currentStepIndex = 0
       /\ state'.currentStep = steps[1]
       /\ state'.totalSteps = Len(steps)
       /\ state'.error = Null
       /\ state'.userPosition = Null
       /\ state'.accuracy = Null
       /\ state'.distanceToNextWaypoint = Null
       /\ Spoken(events') = << "Starting navigation. " \o steps[1].instruction >>
       /\ service'.hasSpokenCurrentStep
       /\ service'.watchId # Null
       /\ service'.watchId.some \in platform'.watches
       /\ \A j \in 1 .. Len(events') :
            events'[j].call = "watchPosition"
            => \E i \in 1 .. (j - 1) : events'[i].call = "markAsSpoken"

\* This step is startNavigation with a route of N >= 1 steps.
C7_Started == Ran("startNavigation") /\ Len(StepsOf(Arg)) >= 1

\* C7, as stated: startNavigation with a route of N >= 1 steps yields a
\* NAVIGATING session at step 0 with error, position, accuracy and distance
\* null, makes exactly one speak call, "Starting navigation. " +
\* step[0].instruction, sets the announced flag, and begins the location
\* subscription only after the flag is set.
C7_StartYieldsSession_AsStated ==
    [][ C7_Started => C7_Post(Arg) ]_vars

\* C7, amended: the same, on a platform that offers geolocation.
C7_StartYieldsSession ==
    [][ (C7_Started /\ platform.geolocation) => C7_Post(Arg) ]_vars

\* C7 witness: a three-step session has just been started, is tracking, and
\* the one speak call was the first instruction's.
C7_Witness ==
    /\ lastOp.name = "startNavigation"
    /\ state.isNavigating
    /\ N = 3
    /\ state.currentStepIndex = 0
    /\ service.watchId # Null
    /\ service.hasSpokenCurrentStep
    /\ Spoken(events) = << "Starting navigation. Head east" >>

\* C8: startNavigation with a route that has no steps, no segments or no
\* route sets error to "No navigation steps available" and changes nothing
\* else: no speak call, no subscription, no other field of the session.
C8_EmptyRouteOnlySetsError ==
    [][ (Ran("startNavigation") /\ Len(StepsOf(Arg)) = 0)
        => /\ state' = [state EXCEPT !.error = Some("No navigation steps available")]
           /\ routeRef' = routeRef
           /\ stepsRef' = stepsRef
           /\ service' = service
           /\ platform' = platform
           /\ events' = <<>> ]_vars

\* C8 witness: startNavigation with an empty route has run during a session;
\* the error is set and the session goes on.
C8_Witness ==
    /\ lastOp.name = "startNavigation"
    /\ lastOp.arg = [route |-> MkRoute(GeometryA, <<>>)]
    /\ events = <<>>
    /\ state.error = Some("No navigation steps available")
    /\ state.isNavigating
    /\ state.currentStepIndex = 1

\* C9, as stated: a location error during an active session sets error to
\* the mapped message, sets isNavigating to false, stops the tracker and
\* leaves the state equal to the initial state apart from the error field.
C9_ErrorDiscardsSession ==
    [][ (Ran("handleError") /\ state.isNavigating)
        => /\ state' = [initialState EXCEPT !.error = Some(errorMessages(Arg.code))]
           /\ service'.watchId = Null ]_vars

\* C10: stopNavigation, in any state, leaves the session equal to the
\* initial state, error included, with the subscription held cancelled, the
\* route and the step list cleared and no utterance in flight.
C10_StopResetsEverything ==
    [][ Ran("stopNavigation")
        => /\ state' = initialState
           /\ routeRef' = Null
           /\ stepsRef' = <<>>
           /\ service'.watchId = Null
           /\ service.watchId # Null => service.watchId.some \notin platform'.watches
           /\ service'.currentUtterance = Null
           /\ platform'.queue = <<>> ]_vars

\* C10 witness: stopNavigation has run on a tracking session: it cleared the
\* watch and cancelled the speech.
C10_Witness ==
    /\ lastOp.name = "stopNavigation"
    /\ Called(events, "clearWatch")
    /\ Called(events, "synthesis.cancel")
    /\ state = initialState
    /\ routeRef = Null

\* C11, as stated: when stopNavigation returns, every location subscription
\* the engine has started is cancelled: no watch is live, so the platform
\* delivers no fix until the next startNavigation.
C11_StopCancelsEverySubscription ==
    [][ Ran("stopNavigation") => platform'.watches = {} ]_vars

\* C12: startNavigation with a route of N2 >= 1 steps during an active
\* session leaves a session at step 0 of the new route, with the new route
\* and its steps captured; the captured route changes by startNavigation and
\* stopNavigation only, and an active session always shows the step of the
\* captured list, so every later fix is evaluated against the new route.
C12_RestartDiscardsPriorSession ==
    /\ [](state.isNavigating
            => /\ routeRef # Null
               /\ stepsRef = StepsOf([route |-> routeRef])
               /\ state.totalSteps = N
               /\ state.currentStep = At(stepsRef, state.currentStepIndex))
    /\ [][ /\ ( /\ Ran("startNavigation")
                 /\ state.isNavigating
                 /\ Len(StepsOf(Arg)) >= 1 )
               => /\ state'.isNavigating
                  /\ state'.currentStepIndex = 0
                  /\ state'.totalSteps = Len(StepsOf(Arg))
                  /\ state'.currentStep = StepsOf(Arg)[1]
                  /\ routeRef' = Arg.route
                  /\ stepsRef' = StepsOf(Arg)
           /\ (routeRef' # routeRef \/ stepsRef' # stepsRef)
               => (Ran("startNavigation") \/ Ran("stopNavigation")) ]_vars

\* C12 witness: a second startNavigation during a session (two watches are
\* live) loaded a one-step route on GeometryB, and the fix (6, 35) was then
\* measured against that route's waypoint (0, 0): 36 m.
C12_Witness ==
    /\ lastOp.name = "handlePositionUpdate"
    /\ lastOp.arg = [lat |-> 6, lng |-> 35, accuracy |-> 8]
    /\ state.isNavigating
    /\ Cardinality(platform.watches) = 2
    /\ routeRef.geometry.coordinates = GeometryB
    /\ state.totalSteps = 1
    /\ state.distanceToNextWaypoint = Some(36)

\* C13: skipToNextStep while navigating at step i < N-1 sets the index to
\* i+1, currentStep to step[i+1] and nextStep to step[i+2] or null, leaves
\* the announced flag set and makes exactly one speak call, with
\* step[i+1].instruction; position, accuracy and distance play no part and
\* are left as they were.
C13_SkipAdvancesAndAnnounces ==
    [][ ( /\ Ran("skipToNextStep")
          /\ state.isNavigating
          /\ state.currentStepIndex < N - 1 )
        => /\ state' = [state EXCEPT
                          !.currentStepIndex = state.currentStepIndex + 1,
                          !.currentStep      = stepsRef[state.currentStepIndex + 2],
                          !.nextStep         = At(stepsRef, state.currentStepIndex + 2)]
           /\ service'.hasSpokenCurrentStep
           /\ Spoken(events') = << stepsRef[state.currentStepIndex + 2].instruction >> ]_vars

\* C13 witness: a skip has moved a three-step session from step 1 to its
\* last step, 36 m away from where the user was last seen.
C13_Witness ==
    /\ lastOp.name = "skipToNextStep"
    /\ state.isNavigating
    /\ N = 3
    /\ state.currentStepIndex = 2
    /\ state.nextStep = Null
    /\ state.distanceToNextWaypoint = Some(36)
    /\ Spoken(events) = << "Turn right" >>

\* C14: repeatCurrentInstruction while navigating makes one speak call, with
\* the current step's instruction, and leaves the session state, the refs,
\* the announced flag and the location subscription as they were.
C14_RepeatOnlySpeaks ==
    [][ (Ran("repeatCurrentInstruction") /\ state.isNavigating)
        => /\ Spoken(events') = << stepsRef[state.currentStepIndex + 1].instruction >>
           /\ state' = state
           /\ routeRef' = routeRef
           /\ stepsRef' = stepsRef
           /\ service'.hasSpokenCurrentStep = service.hasSpokenCurrentStep
           /\ service'.watchId = service.watchId
           /\ platform'.watches = platform.watches ]_vars

\* C14 witness: the instruction of step 1 of a three-step session has been
\* repeated while the session goes on.
C14_Witness ==
    /\ lastOp.name = "repeatCurrentInstruction"
    /\ state.isNavigating
    /\ state.currentStepIndex = 1
    /\ service.hasSpokenCurrentStep
    /\ service.watchId # Null
    /\ Spoken(events) = << "Turn left" >>

\* C15: while navigating on a step whose end waypoint cannot be resolved, a
\* fix updates userPosition and accuracy only: index, steps, distance and
\* the announced flag are unchanged and no speak call is made.
C15_UnresolvedWaypointOnlyMovesPosition ==
    [][ ( /\ Ran("handlePositionUpdate")
          /\ state.isNavigating
          /\ ~Resolvable(state.currentStepIndex) )
        => /\ state' = [state EXCEPT !.userPosition = Pos(Arg.lat, Arg.lng),
                                     !.accuracy     = Some(Arg.accuracy)]
           /\ service'.hasSpokenCurrentStep = service.hasSpokenCurrentStep
           /\ Spoken(events') = <<>> ]_vars

\* C15 witness: a session stands on the last step of a three-step route,
\* whose end index is past the geometry; the fix (0, 0) has been recorded
\* and the distance is still the one to the step before.
C15_Witness ==
    /\ lastOp.name = "handlePositionUpdate"
    /\ state.isNavigating
    /\ N = 3
    /\ state.currentStepIndex = 2
    /\ stepsRef[3].way_points[2] = Len(routeRef.geometry.coordinates)
    /\ state.userPosition = Pos(0, 0)
    /\ state.distanceToNextWaypoint # Null
    /\ events = <<>>

\* C16: one fix changes currentStepIndex by at most 1, and ends the session
\* by arrival only when it found the session at its last step, even when
\* the fix is within 10 m of the end waypoints of several steps in a row.
C16_OneFixOneStep ==
    [][ (Ran("handlePositionUpdate") /\ state.isNavigating)
        => IF state'.isNavigating
           THEN state'.currentStepIndex \in
                    {state.currentStepIndex, state.currentStepIndex + 1}
           ELSE state.currentStepIndex = N - 1 ]_vars

\* C16 witness: the three steps of the route all end at (0, 40); the fix
\* (6, 35), within 10 m of all of them, has moved the session from step 0
\* to step 1 and no further.
C16_Witness ==
    /\ lastOp.name = "handlePositionUpdate"
    /\ lastOp.arg = [lat |-> 6, lng |-> 35, accuracy |-> 8]
    /\ state.isNavigating
    /\ N = 3
    /\ \A i \in 1 .. 3 : stepsRef[i].way_points[2] = 1
    /\ routeRef.geometry.coordinates = GeometryA
    /\ state.currentStepIndex = 1
    /\ state.distanceToNextWaypoint = Some(8)

\* C17: the platform never holds more than one utterance, and every
\* utterance handed to the platform follows a synthesis.cancel() made by the
\* same speak call, whatever handlers made the announcements.
C17_OneUtteranceInFlight ==
    /\ [](Len(platform.queue) <= 1)
    /\ [][ \A j \in 1 .. Len(events') :
              events'[j].call = "synthesis.speak"
              => /\ j >= 3
                 /\ events'[j - 1].call = "synthesis.cancel"
                 /\ events'[j - 2] = Ev("speak", events'[j].text, 0) ]_vars

\* C17 witness: a skip spoke while the announcement before it was still
\* being played: that one was dropped, and the new one is the only one.
C17_Witness ==
    /\ lastOp.name = "skipToNextStep"
    /\ \E j \in 1 .. Len(events) :
          events[j].call = "synthesis.cancel" /\ events[j].id = 1
    /\ platform.queue = << "Turn left" >>

\* C18: the promise of speak resolves when the utterance ends, resolves on
\* the synthesis error "canceled", rejects on every other synthesis error,
\* and resolves within the speak call, nothing being handed to the
\* platform, where there is no speech synthesis.
C18_SpeakPromiseOutcome ==
    [][ /\ Ran("onend")
           => (Called(events', "resolve") /\ ~Called(events', "reject"))
        /\ (Ran("onerror") /\ Arg.error = "canceled")
           => (Called(events', "resolve") /\ ~Called(events', "reject"))
        /\ (Ran("onerror") /\ Arg.error # "canceled")
           => (Called(events', "reject") /\ ~Called(events', "resolve"))
        /\ ~platform.synthesis
           => /\ ~Called(events', "synthesis.speak")
              /\ \A j \in 1 .. Len(events') :
                    events'[j].call = "speak"
                    => /\ j < Len(events')
                       /\ events'[j + 1] = Ev("resolve", events'[j].text, 0) ]_vars

\* C18 witness: the onerror of an utterance that a later speak call had
\* dropped has run with "canceled" and has resolved its promise.
C18_Witness ==
    /\ lastOp.name = "onerror"
    /\ lastOp.arg = [error |-> "canceled"]
    /\ lastOp.late
    /\ events = << Ev("resolve", "", 0) >>

\* C19: a synthesis error that rejects the promise of speak leaves the
\* session state, the refs, the announced flag and the location
\* subscription as they were, exactly as the end of the utterance does.
C19_SpeechFailureLeavesNavigation ==
    [][ ( \/ Ran("onerror") /\ Arg.error # "canceled"
          \/ Ran("onend") )
        => /\ state' = state
           /\ routeRef' = routeRef
           /\ stepsRef' = stepsRef
           /\ service'.hasSpokenCurrentStep = service.hasSpokenCurrentStep
           /\ service'.watchId = service.watchId
           /\ platform'.watches = platform.watches ]_vars

\* C19 witness: the utterance being played failed during a session at step
\* 1; the promise was rejected and the session goes on.
C19_Witness ==
    /\ lastOp.name = "onerror"
    /\ lastOp.arg = [error |-> "synthesis-failed"]
    /\ events = << Ev("reject", "synthesis-failed", 0) >>
    /\ state.isNavigating
    /\ state.currentStepIndex = 1
    /\ state.error = Null
    /\ service.watchId # Null

\* C20: on a platform without geolocation startTracking reports the error
\* before it returns and starts no watch, so startNavigation with a route
\* of N >= 1 steps ends with isNavigating false, the error set and no
\* subscription.
C20_NoGeolocationFailsStart ==
    [][ (C7_Started /\ ~platform.geolocation)
        => /\ ~state'.isNavigating
           /\ state'.error = Some(errorMessages(2))
           /\ service'.watchId = Null
           /\ platform'.watches = {}
           /\ ~Called(events', "watchPosition")
           /\ \E i \in 1 .. Len(events') : \E j \in (i + 1) .. Len(events') :
                 /\ events'[i].call = "startTracking"
                 /\ events'[j].call = "stopTracking" ]_vars

\* C20 witness: startNavigation with a three-step route has run on a
\* platform without geolocation: no session, the error shown, no watch.
C20_Witness ==
    /\ lastOp.name = "startNavigation"
    /\ ~platform.geolocation
    /\ Len(StepsOf(lastOp.arg)) = 3
    /\ ~state.isNavigating
    /\ state.error = Some("Location unavailable. Please check your device settings.")
    /\ platform.watches = {}

\* The number of calls named call that a handler made.
Count(evs, call) == Len(SelectSeq(evs, LAMBDA e : e.call = call))

\* C21, as stated: PERMISSION_DENIED, POSITION_UNAVAILABLE and TIMEOUT, the
\* codes a watch reports, and CAPABILITY_UNAVAILABLE, reported by
\* startTracking where there is no geolocation, each put their own message
\* in the error field, and no two of the four put the same.
C21_ErrorKindsHaveOwnMessages ==
    [][ /\ Ran("handleError")
           => /\ state'.error = Some(errorMessages(Arg.code))
              /\ \A other \in ErrorCodes \ {Arg.code} :
                    errorMessages(other) # errorMessages(Arg.code)
        /\ (C7_Started /\ ~platform.geolocation)
           => /\ state'.error # Null
              /\ \A code \in ErrorCodes :
                    state'.error # Some(errorMessages(code)) ]_vars

\* C22: a location error ends the session and stops the tracker; after it
\* the engine becomes active and subscribes again by startNavigation only,
\* the error field changes by startNavigation, stopNavigation or a further
\* error only, and startNavigation with a route of N >= 1 steps (the
\* platform offering geolocation, as it does where a watch has reported an
\* error) then yields an active session at step 0 with error null.
C22_NoAutomaticRetry ==
    [][ /\ Ran("handleError")
           => /\ ~state'.isNavigating
              /\ state'.error # Null
              /\ service'.watchId = Null
        /\ (~state.isNavigating /\ state'.isNavigating)
           => Ran("startNavigation")
        /\ ~(platform'.watches \subseteq platform.watches)
           => Ran("startNavigation")
        /\ (~state.isNavigating /\ state.error # Null /\ state'.error # state.error)
           => (Ran("startNavigation") \/ Ran("stopNavigation") \/ Ran("handleError"))
        /\ ( /\ C7_Started
             /\ platform.geolocation
             /\ ~state.isNavigating
             /\ state.error # Null )
           => /\ state'.isNavigating
              /\ state'.currentStepIndex = 0
              /\ state'.error = Null ]_vars

\* C22 witness: a timeout has ended a session at step 1 and cleared its
\* watch; the fix that watch had queued has run since, and the engine is
\* still stopped, with the error shown and no watch.
C22_Witness ==
    /\ lastOp.name = "handlePositionUpdate"
    /\ lastOp.late
    /\ ~state.isNavigating
    /\ state.error = Some("Location request timed out. Please try again.")
    /\ state.currentStepIndex = 1
    /\ service.watchId = Null
    /\ platform.watches = {}

\* C23: stopTracking with no subscription held (never started, or already
\* stopped) calls no clearWatch, leaves the platform's watches as they are
\* and the service with no subscription; with one held it clears that one,
\* once.
C23_StopTrackingIdempotent ==
    [][ Called(events', "stopTracking")
        => /\ service'.watchId = Null
           /\ service.watchId = Null
              => /\ ~Called(events', "clearWatch")
                 /\ platform'.watches = platform.watches
           /\ (service.watchId # Null /\ ~Called(events', "watchPosition"))
              => /\ Count(events', "clearWatch") = 1
                 /\ platform'.watches = platform.watches \ {service.watchId.some} ]_vars

\* C23 witness: stopNavigation has run with no subscription held, on a
\* platform that offers geolocation: stopTracking ran and called no
\* clearWatch.
C23_Witness ==
    /\ lastOp.name = "stopNavigation"
    /\ Called(events, "stopTracking")
    /\ ~Called(events, "clearWatch")
    /\ service.watchId = Null
    /\ platform.geolocation
    /\ platform.watches = {}

\* r metres is the distance whose square is sq, rounded to the nearest
\* metre (halves upwards).
IsNearestMetre(r, sq) ==
    /\ 4 * sq < (2 * r + 1) * (2 * r + 1)
    /\ r > 0 => (2 * r - 1) * (2 * r - 1) <= 4 * sq

\* What C24 says of the snapshot a fix leaves, but for the distance: the
\* steps shown are those of the index, position and accuracy are the fix's.
C24_Snapshot ==
    /\ state'.currentStep = At(stepsRef, state'.currentStepIndex)
    /\ state'.currentStep # Null
    /\ state'.nextStep = At(stepsRef, state'.currentStepIndex + 1)
    /\ state'.userPosition = Pos(Arg.lat, Arg.lng)
    /\ state'.accuracy = Some(Arg.accuracy)
    /\ state'.distanceToNextWaypoint # Null

\* This step is a fix processed while navigating with the active waypoint
\* resolvable, and the session goes on.
C24_Processed ==
    /\ Ran("handlePositionUpdate")
    /\ state.isNavigating
    /\ Resolvable(state.currentStepIndex)
    /\ state'.isNavigating

C25_ActiveStepAlwaysAnnounced ==
    /\ [](state.isNavigating => service.hasSpokenCurrentStep)
    /\ [][ (Ran("handlePositionUpdate") /\ state.isNavigating)
           => /\ Len(Spoken(events')) <= 1
              /\ ( /\ state'.isNavigating
                   /\ state'.currentStepIndex = state.currentStepIndex )
                 => Spoken(events') = <<>> ]_vars

\* C25 witness: during a session on a step that ends at (0, 0) the fix
\* (0, 10), 10 m from it and so inside the 30 m radius and outside the
\* arrival radius, has been processed: no speak call, the flag is set.
C25_Witness ==
    /\ lastOp.name = "handlePositionUpdate"
    /\ lastOp.arg = [lat |-> 0, lng |-> 10, accuracy |-> 5]
    /\ state.isNavigating
    /\ routeRef.geometry.coordinates = GeometryA
    /\ state.currentStep.way_points[2] = 0
    /\ state.distanceToNextWaypoint = Some(10)
    /\ service.hasSpokenCurrentStep
    /\ events = <<>>

\* C26, as stated: where there is speech synthesis, the announcement "You
\* have arrived at your destination" made by the final fix is the utterance
\* in flight when the handler of that fix has finished.
C26_ArrivalAnnouncementSurvives ==
    [][ ( /\ Ran("handlePositionUpdate")
          /\ state.isNavigating
          /\ state.currentStepIndex = N - 1
          /\ Closer(Arg, state.currentStepIndex, 10)
          /\ platform.synthesis )
        => /\ platform'.queue = << "You have arrived at your destination" >>
           /\ service'.currentUtterance = Some("You have arrived at your destination") ]_vars

\* C27, as stated: at most one location subscription is live at any moment,
\* and none while no session is active.
C27_AtMostOneSubscription ==
    /\ Cardinality(platform.watches) <= 1
    /\ ~state.isNavigating => platform.watches = {}

\* C28, as stated: skipToNextStep while no session is active changes
\* nothing and makes no call.
C28_SkipWhileIdleIsNoOp ==
    [][ (Ran("skipToNextStep") /\ ~state.isNavigating)
        => (NothingChanged /\ events' = <<>>) ]_vars

\* C29, as stated: repeatCurrentInstruction while no session is active makes
\* no speak call.
C29_RepeatWhileIdleIsSilent ==
    [][ (Ran("repeatCurrentInstruction") /\ ~state.isNavigating)
        => Spoken(events') = <<>> ]_vars

\* C30, as stated: a location error delivered while no session is active
\* leaves the session state, the error field included, as it was.
C30_ErrorWhileIdleIsIgnored ==
    [][ (Ran("handleError") /\ ~state.isNavigating) => state' = state ]_vars

\* C31, as stated: startNavigation with an empty route leaves no session
\* active, whatever the state before the call.
C31_EmptyStartLeavesIdle ==
    [][ (Ran("startNavigation") /\ Len(StepsOf(Arg)) = 0)
        => ~state'.isNavigating ]_vars

\* C32, as stated: while a session is active a distanceToNextWaypoint that is
\* not null is the distance, rounded to the nearest metre, from userPosition
\* to the end waypoint of step[currentStepIndex].
C32_DistanceIsToActiveWaypoint ==
    (state.isNavigating /\ state.distanceToNextWaypoint # Null)
    => /\ state.userPosition # Null
       /\ Resolvable(state.currentStepIndex)
       /\ IsNearestMetre(state.distanceToNextWaypoint.some,
                         SqDistanceToWaypoint(state.userPosition,
                                              state.currentStepIndex))

\* C33: isNavigating turns from true to false only by a fix closer than
\* 10 m to the last step's waypoint while at the last step, by a location
\* error, or by stopNavigation; skipToNextStep, repeatCurrentInstruction,
\* the end or failure of an utterance, and every other fix leave an active
\* session active.
C33_SessionEndsByThreeEventsOnly ==
    [][ /\ (state.isNavigating /\ ~state'.isNavigating)
           => \/ Ran("stopNavigation")
              \/ Ran("handleError")
              \/ /\ Ran("handlePositionUpdate")
                 /\ state.currentStepIndex = N - 1
                 /\ Closer(Arg, state.currentStepIndex, 10)
        /\ ( /\ state.isNavigating
             /\ \/ Ran("skipToNextStep")
                \/ Ran("repeatCurrentInstruction")
                \/ Ran("onend")
                \/ Ran("onerror")
                \/ /\ Ran("handlePositionUpdate")
                   /\ ~( /\ state.currentStepIndex = N - 1
                         /\ Closer(Arg, state.currentStepIndex, 10) ) )
           => state'.isNavigating ]_vars

\* C33 witness: the fix (6, 35), 7.8 m from the end of the last step of a
\* three-step route, has ended the session: the arrival was announced, the
\* watch cleared and the state reset, the route still being loaded.
C33_Witness ==
    /\ lastOp.name = "handlePositionUpdate"
    /\ ~lastOp.late
    /\ lastOp.arg = [lat |-> 6, lng |-> 35, accuracy |-> 8]
    /\ N = 3
    /\ state = initialState
    /\ Spoken(events) = << "You have arrived at your destination" >>
    /\ Called(events, "clearWatch")

\* C34: a session started on N steps that receives nothing but fixes, each
\* closer than 10 m to the waypoint then active (no skip, stop or error),
\* is at step k after k < N fixes and idle by arrival after exactly N: fix
\* k < N moves the index from k-1 to k and announces step[k], and fix N
\* announces the arrival and resets the state.
C34_CloseFixesWalkTheRoute ==
    /\ [](closeFixes # Null
            => IF closeFixes.some < N
               THEN state.isNavigating /\ state.currentStepIndex = closeFixes.some
               ELSE closeFixes.some = N /\ state = initialState)
    /\ [][ ( /\ Ran("handlePositionUpdate")
             /\ state.isNavigating
             /\ closeFixes # Null
             /\ Closer(Arg, state.currentStepIndex, 10) )
           => /\ closeFixes' = Some(closeFixes.some + 1)
              /\ Spoken(events') =
                    IF closeFixes.some + 1 < N
                    THEN << stepsRef[closeFixes.some + 2].instruction >>
                    ELSE << "You have arrived at your destination" >> ]_vars

\* C34 witness: the third close fix of a session on three steps, which end
\* at (0, 0), (0, 0) and (0, 40), has announced the arrival and left the
\* engine idle.
C34_Witness ==
    /\ closeFixes = Some(3)
    /\ N = 3
    /\ stepsRef[1].way_points[2] = 0
    /\ stepsRef[2].way_points[2] = 0
    /\ stepsRef[3].way_points[2] = 1
    /\ routeRef.geometry.coordinates = GeometryA
    /\ lastOp.name = "handlePositionUpdate"
    /\ lastOp.arg = [lat |-> 6, lng |-> 35, accuracy |-> 8]
    /\ state = initialState
    /\ Spoken(events) = << "You have arrived at your destination" >>

\* The world a fix would find if the current step had not been announced.
C35_Unannounced == [Here EXCEPT !.svc.hasSpokenCurrentStep = FALSE]

\* What handlePositionUpdate makes of the fix in the world w.
C35_Outcome(w, fix) == handlePositionUpdate(w, fix.lat, fix.lng, fix.accuracy)

\* The fix is exactly m metres from the end waypoint of the current step.
C35_Exactly(fix, m) ==
    /\ Resolvable(state.currentStepIndex)
    /\ SqDistanceToWaypoint(fix, state.currentStepIndex) = m * m

\* C35: the thresholds are strict and the arrival rule comes first.  A fix
\* at exactly 10 m from the active waypoint leaves the session active at its
\* step, and falls under the pre-arrival rule: had the step not been
\* announced, the handler would announce the current step.  At exactly 30 m
\* the handler would make no announcement even if the step had not been
\* announced.  Below 10 m the handler advances with the next step's
\* announcement, or announces the arrival, announced or not, and never
\* announces the current step.  (No active session has an unannounced step,
\* so these cases are stated of the handler applied to the session's world
\* with the flag cleared.)
C35_ThresholdsAreStrict ==
    /\ [](state.isNavigating =>
            \A fix \in Fixes :
               LET i   == state.currentStepIndex
                   out == C35_Outcome(C35_Unannounced, fix)
               IN /\ C35_Exactly(fix, 10)
                     => /\ out.state.isNavigating
                        /\ out.state.currentStepIndex = i
                        /\ Spoken(out.events) = << stepsRef[i + 1].instruction >>
                  /\ C35_Exactly(fix, 30)
                     => /\ out.state.isNavigating
                        /\ out.state.currentStepIndex = i
                        /\ Spoken(out.events) = <<>>
                        /\ ~out.svc.hasSpokenCurrentStep
                  /\ Closer(fix, i, 10)
                     => IF i < N - 1
                        THEN /\ out.state.currentStepIndex = i + 1
                             /\ Spoken(out.events) = << stepsRef[i + 2].instruction >>
                        ELSE /\ out.state = initialState
                             /\ Spoken(out.events) =
                                   << "You have arrived at your destination" >>)
    /\ [][ ( /\ Ran("handlePositionUpdate")
             /\ state.isNavigating
             /\ C35_Exactly(Arg, 10) \/ C35_Exactly(Arg, 30) )
           => /\ state'.isNavigating
              /\ state'.currentStepIndex = state.currentStepIndex
              /\ Spoken(events') = <<>> ]_vars

\* C35 witness: a one-step session whose step ends at (0, 0) has received
\* the fix (0, 10), exactly 10 m away: it is still active at step 0, the
\* last step, with 10 m shown and no arrival announced.
C35_Witness ==
    /\ lastOp.name = "handlePositionUpdate"
    /\ lastOp.arg = [lat |-> 0, lng |-> 10, accuracy |-> 5]
    /\ N = 1
    /\ routeRef.geometry.coordinates = GeometryA
    /\ stepsRef[1].way_points[2] = 0
    /\ state.isNavigating
    /\ state.currentStepIndex = 0
    /\ state.userPosition = Pos(0, 10)
    /\ state.distanceToNextWaypoint = Some(10)
    /\ Spoken(events) = <<>>

\* The end index of step i (0-based) of the loaded step list.
C36_EndIndex(i) == stepsRef[i + 1].way_points[2]

\* C36: the waypoint of step index i is the geometry coordinate at the END
\* index of step[i].way_points, its [lng, lat] pair read as (lat, lng); it
\* is null exactly when no route is loaded, step[i] does not exist or the
\* end index is outside the geometry.  A fix that leaves the session at its
\* step is measured against that coordinate.
C36_WaypointIsEndCoordinate ==
    /\ [](\A i \in 0 .. MaxSteps :
            LET got    == getWaypointCoordinates(Here, i)
                coords == routeRef.geometry.coordinates
            IN IF \/ routeRef = Null
                  \/ i >= Len(stepsRef)
                  \/ C36_EndIndex(i) < 0
                  \/ C36_EndIndex(i) >= Len(coords)
               THEN got = Null
               ELSE /\ got # Null
                    /\ got.lng = coords[C36_EndIndex(i) + 1][1]
                    /\ got.lat = coords[C36_EndIndex(i) + 1][2])
    /\ [][ ( /\ Ran("handlePositionUpdate")
             /\ state.isNavigating
             /\ state'.isNavigating
             /\ state'.currentStepIndex = state.currentStepIndex
             /\ Resolvable(state.currentStepIndex) )
           => LET c  == routeRef.geometry.coordinates[
                            C36_EndIndex(state.currentStepIndex) + 1]
                  sq == (Arg.lat - c[2]) * (Arg.lat - c[2])
                        + (Arg.lng - c[1]) * (Arg.lng - c[1])
              IN /\ sq >= 10 * 10
                 /\ IsNearestMetre(state'.distanceToNextWaypoint.some, sq) ]_vars

\* C36 witness: the one step of the route runs from coordinate 0, [0, 0],
\* to coordinate 1, [40, 0] (lng 40, lat 0); the fix (lat 0, lng 10) has
\* been measured against the end coordinate read as (lat 0, lng 40): 30 m,
\* not the 10 m to the start coordinate nor the 41 m to (lat 40, lng 0).
C36_Witness ==
    /\ lastOp.name = "handlePositionUpdate"
    /\ lastOp.arg = [lat |-> 0, lng |-> 10, accuracy |-> 5]
    /\ state.isNavigating
    /\ N = 1
    /\ routeRef.geometry.coordinates = GeometryA
    /\ stepsRef[1].way_points = <<0, 1>>
    /\ state.distanceToNextWaypoint = Some(30)

\* C38, as stated: the service's currentUtterance is non-null exactly while
\* an utterance started by speak is in flight; in particular the event of
\* an utterance that a newer speak call superseded does not clear the
\* reference to the newer one.
C38_CurrentUtteranceTracksSpeech ==
    IF platform.queue = <<>>
    THEN service.currentUtterance = Null
    ELSE service.currentUtterance = Some(platform.queue[Len(platform.queue)])

\* The whole metres of a distance (rounded down).
Metres(x) == IF x.e >= 0 THEN x.m * Pow2(x.e) ELSE x.m \div Pow2(-x.e)

\* C37: the distance function is symmetric and zero on identical points,
\* and two points 1 degree of latitude apart on one meridian are within
\* 0.5% of 111,320 m of each other.
C37_DistanceSymmetricAndScaled ==
    measured.there # Null
    => /\ measured.there = measured.back
       /\ measured.from = measured.to => measured.there = Zero
       /\ ( /\ measured.from.lng = measured.to.lng
            /\ measured.from.lat - measured.to.lat \in {-1, 1} )
          => /\ measured.there # NaN
             /\ 200 * (Metres(measured.there) - 111320) <= 111320
             /\ 200 * (111320 - Metres(measured.there)) <= 111320

\* C37 witness: calculateDistance has been applied to (0, 0) and (1, 0),
\* one degree of latitude apart on the meridian 0, in both orders: 111,196 m
\* either way.
C37_Witness ==
    /\ measured.from = Pos(0, 0)
    /\ measured.to = Pos(1, 0)
    /\ measured.there # Null
    /\ measured.there = measured.back
    /\ Metres(measured.there) = 111196

====
